---------------------------- MODULE Spec2Model ----------------------------
(***************************************************************************)
(* A model of the autosend-go client library: client construction          *)
(* (client.go, the functional options), request validation and the send    *)
(* pipeline (email.go), and the error classifier (client.go).              *)
(*                                                                         *)
(* Pointers are indices: an *http.Client is an index into httpClients, a   *)
(* *Client an index into clients.  Durations are whole seconds.  Go        *)
(* strings are TLA+ strings, except header values, which are sequences of  *)
(* one-character strings so that strconv can be computed on them.          *)
(***************************************************************************)
EXTENDS Integers, Sequences, FiniteSets, Bags, TLC

VARIABLES
    httpClients,  \* the http.Client objects that exist: index -> [Timeout]
    clients,      \* the Client objects constructed so far
    calls,        \* per caller: the call blocked in httpClient.Do, or idle
    ret           \* the operation that returned last, its arguments and results

vars == <<httpClients, clients, calls, ret>>

-----------------------------------------------------------------------------
(* Bounds of the model *)

\* how many callers (goroutines) use the library at the same time
MaxCallers == 2

\* how many Client values are constructed in one run
MaxClients == 2

\* how many options one NewClientWithOptions call is given
MaxOpts == 2

-----------------------------------------------------------------------------
(* Program constants *)

DefaultBaseURL == "https://api.autosend.com/v1"

\* 30 * time.Second, in seconds
DefaultTimeout == 30

\* the nil pointer
Nil == 0

-----------------------------------------------------------------------------
(* Requests and validation (email.go) *)

\* the nil *SendEmailRequest
NilRequest == [nil |-> TRUE]

\* a non-nil SendEmailRequest: the fields validation and encoding look at.
\* encodable is FALSE when DynamicData holds a value json.Marshal rejects.
SendEmailRequest(to, from, subject, html, text, templateId, encodable) ==
    [nil |-> FALSE, To |-> [Email |-> to], From |-> [Email |-> from],
     Subject |-> subject, HTML |-> html, Text |-> text,
     TemplateID |-> templateId, encodable |-> encodable]

\* every request over empty / non-empty field values
Requests ==
    {NilRequest} \cup
    { SendEmailRequest(to, from, subject, html, text, templateId, TRUE) :
        to \in {"", "customer@example.com"},
        from \in {"", "hello@mail.yourdomain.com"},
        subject \in {"", "Welcome!"},
        html \in {"", "<p>hi</p>"},
        text \in {"", "hi"},
        templateId \in {"", "tmpl_abc123"} }

NoError == [kind |-> "nil"]

\* fmt.Errorf(format, args...): the format and its arguments are kept apart
Errorf(format, args) == [kind |-> "error", format |-> format, args |-> args]

\* validation that forgets the subject check
validateWithoutSubjectCheck(req) ==
    IF req.nil THEN Errorf("request cannot be nil", <<>>)
    ELSE IF req.To.Email = "" THEN Errorf("to.email is required", <<>>)
    ELSE IF req.From.Email = "" THEN Errorf("from.email is required", <<>>)
    ELSE IF req.TemplateID = "" /\ req.HTML = "" /\ req.Text = ""
        THEN Errorf("either templateId or html/text content must be provided", <<>>)
    ELSE NoError

\* validation that asks for a subject also when a template is used
validateSubjectAlways(req) ==
    IF req.nil THEN Errorf("request cannot be nil", <<>>)
    ELSE IF req.To.Email = "" THEN Errorf("to.email is required", <<>>)
    ELSE IF req.From.Email = "" THEN Errorf("from.email is required", <<>>)
    ELSE IF req.TemplateID = "" /\ req.HTML = "" /\ req.Text = ""
        THEN Errorf("either templateId or html/text content must be provided", <<>>)
    ELSE IF req.Subject = ""
        THEN Errorf("subject is required when not using a template", <<>>)
    ELSE NoError

\* validation that checks the subject before the content
validateSubjectBeforeContent(req) ==
    IF req.nil THEN Errorf("request cannot be nil", <<>>)
    ELSE IF req.To.Email = "" THEN Errorf("to.email is required", <<>>)
    ELSE IF req.From.Email = "" THEN Errorf("from.email is required", <<>>)
    ELSE IF req.TemplateID = "" /\ req.Subject = ""
        THEN Errorf("subject is required when not using a template", <<>>)
    ELSE IF req.TemplateID = "" /\ req.HTML = "" /\ req.Text = ""
        THEN Errorf("either templateId or html/text content must be provided", <<>>)
    ELSE NoError

validateSendEmailRequest(req) ==
    IF req.nil THEN Errorf("request cannot be nil", <<>>)
    ELSE IF req.To.Email = "" THEN Errorf("to.email is required", <<>>)
    ELSE IF req.From.Email = "" THEN Errorf("from.email is required", <<>>)
    ELSE IF req.TemplateID = "" /\ req.HTML = "" /\ req.Text = ""
        THEN Errorf("either templateId or html/text content must be provided", <<>>)
    ELSE IF req.TemplateID = "" /\ req.Subject = ""
        THEN Errorf("subject is required when not using a template", <<>>)
    ELSE NoError


-----------------------------------------------------------------------------
(* Client configuration (client.go, the functional options) *)

\* The objects that exist: w.h the http.Client objects, w.c the Client objects.
World == [h |-> httpClients, c |-> clients]

\* &http.Client{Timeout: timeout}: a new object, w.h grows by one
AllocHTTPClient(w, timeout) == [w EXCEPT !.h = Append(w.h, [Timeout |-> timeout])]

\* &Client{...}: a new object, w.c grows by one
AllocClient(w, apiKey, baseURL, httpClient) ==
    [w EXCEPT !.c = Append(w.c, [apiKey |-> apiKey, baseURL |-> baseURL,
                                 httpClient |-> httpClient])]

\* Config{APIKey, BaseURL, HTTPClient, Timeout}; HTTPClient is Nil or a pointer
Config(apiKey, baseURL, httpClient, timeout) ==
    [APIKey |-> apiKey, BaseURL |-> baseURL, HTTPClient |-> httpClient,
     Timeout |-> timeout]

\* the world after NewClient(apiKey); the new Client is the last of w.c
NewClientIn(w, apiKey) ==
    LET w1 == AllocHTTPClient(w, DefaultTimeout)
    IN  AllocClient(w1, apiKey, DefaultBaseURL, Len(w1.h))

\* the world after NewClientWithConfig(config)
NewClientWithConfigIn(w, config) ==
    LET baseURL == IF config.BaseURL = "" THEN DefaultBaseURL ELSE config.BaseURL
    IN  IF config.HTTPClient = Nil
        THEN LET timeout == IF config.Timeout = 0 THEN DefaultTimeout
                            ELSE config.Timeout
                 w1 == AllocHTTPClient(w, timeout)
             IN  AllocClient(w1, config.APIKey, baseURL, Len(w1.h))
        ELSE AllocClient(w, config.APIKey, baseURL, config.HTTPClient)

\* A ClientOption is a closure over its argument.
WithBaseURL(baseURL) == [opt |-> "WithBaseURL", arg |-> baseURL]
WithHTTPClient(httpClient) == [opt |-> "WithHTTPClient", arg |-> httpClient]
WithTimeout(timeout) == [opt |-> "WithTimeout", arg |-> timeout]

\* opt(client): what the closure does to the world; c is the *Client
ApplyOption(w, c, o) ==
    CASE o.opt = "WithBaseURL" -> [w EXCEPT !.c[c].baseURL = o.arg]
      [] o.opt = "WithHTTPClient" -> [w EXCEPT !.c[c].httpClient = o.arg]
      [] o.opt = "WithTimeout" -> [w EXCEPT !.h[w.c[c].httpClient].Timeout = o.arg]

\* for _, opt := range opts { opt(client) }
RECURSIVE ApplyOptions(_, _, _)
ApplyOptions(w, c, opts) ==
    IF opts = <<>> THEN w
    ELSE ApplyOptions(ApplyOption(w, c, Head(opts)), c, Tail(opts))

\* the world after NewClientWithOptions(apiKey, opts...)
NewClientWithOptionsIn(w, apiKey, opts) ==
    LET w1 == AllocHTTPClient(w, DefaultTimeout)
        w2 == AllocClient(w1, apiKey, DefaultBaseURL, Len(w1.h))
    IN  ApplyOptions(w2, Len(w2.c), opts)

\* a constructor returns: the world is w, the new *Client is the last one
Constructed(w, op, args) ==
    /\ httpClients' = w.h
    /\ clients' = w.c
    /\ ret' = [op |-> op, args |-> args, client |-> Len(w.c)]
    /\ UNCHANGED calls

NewClient(apiKey) ==
    /\ Len(clients) < MaxClients
    /\ Constructed(NewClientIn(World, apiKey), "NewClient", apiKey)

NewClientWithConfig(config) ==
    /\ Len(clients) < MaxClients
    /\ Constructed(NewClientWithConfigIn(World, config), "NewClientWithConfig", config)

NewClientWithOptions(apiKey, opts) ==
    /\ Len(clients) < MaxClients
    /\ Constructed(NewClientWithOptionsIn(World, apiKey, opts),
                   "NewClientWithOptions", [apiKey |-> apiKey, opts |-> opts])

-----------------------------------------------------------------------------
(* strconv, as parseRateLimitHeaders uses it (client.go) *)

\* A header value is a sequence of one-character strings; "" is <<>>.
\* A parsed integer is kept as sign and decimal digits (no leading zeros),
\* since the values of an int64 exceed the integers TLC computes with.
DigitValue ==
    "0" :> 0 @@ "1" :> 1 @@ "2" :> 2 @@ "3" :> 3 @@ "4" :> 4 @@
    "5" :> 5 @@ "6" :> 6 @@ "7" :> 7 @@ "8" :> 8 @@ "9" :> 9

IsDigit(ch) == ch \in DOMAIN DigitValue

IntZero == [neg |-> FALSE, digits |-> <<"0">>]

RECURSIVE StripLeadingZeros(_)
StripLeadingZeros(ds) ==
    IF Len(ds) > 1 /\ Head(ds) = "0" THEN StripLeadingZeros(Tail(ds)) ELSE ds

\* a < b for two digit sequences of the same length
RECURSIVE DigitsLess(_, _)
DigitsLess(a, b) ==
    IF a = <<>> THEN FALSE
    ELSE IF Head(a) # Head(b) THEN DigitValue[Head(a)] < DigitValue[Head(b)]
    ELSE DigitsLess(Tail(a), Tail(b))

\* a < b for two magnitudes without leading zeros
MagnitudeLess(a, b) ==
    \/ Len(a) < Len(b)
    \/ Len(a) = Len(b) /\ DigitsLess(a, b)

\* 1 << (bitSize - 1) and that minus one, as digits
Cutoff(bitSize) ==
    IF bitSize = 32 THEN <<"2","1","4","7","4","8","3","6","4","8">>
    ELSE <<"9","2","2","3","3","7","2","0","3","6","8","5","4","7","7","5","8","0","8">>

CutoffMinusOne(bitSize) ==
    IF bitSize = 32 THEN <<"2","1","4","7","4","8","3","6","4","7">>
    ELSE <<"9","2","2","3","3","7","2","0","3","6","8","5","4","7","7","5","8","0","7">>

\* strconv.ParseInt(s, 10, bitSize): the value and the error it returns.
\* A syntax error returns 0; a range error returns the nearest bound.
ParseInt(s, bitSize) ==
    LET signed == s # <<>> /\ Head(s) \in {"+", "-"}
        neg == signed /\ Head(s) = "-"
        body == IF signed THEN Tail(s) ELSE s
        un == StripLeadingZeros(body)
    IN  IF body = <<>> \/ \E i \in 1..Len(body) : ~IsDigit(body[i])
        THEN [v |-> IntZero, err |-> "ErrSyntax"]
        ELSE IF ~neg /\ ~MagnitudeLess(un, Cutoff(bitSize))
        THEN [v |-> [neg |-> FALSE, digits |-> CutoffMinusOne(bitSize)],
              err |-> "ErrRange"]
        ELSE IF neg /\ MagnitudeLess(Cutoff(bitSize), un)
        THEN [v |-> [neg |-> TRUE, digits |-> Cutoff(bitSize)], err |-> "ErrRange"]
        ELSE [v |-> [neg |-> neg /\ un # <<"0">>, digits |-> un], err |-> "nil"]

\* the width of int: 64 on the platforms Go is usually built for
IntSize == 64

\* strconv.Atoi(s): ParseInt(s, 10, 0) narrowed to int
Atoi(s) == ParseInt(s, IntSize)

\* http.Header.Get: the header's value, "" when it is absent
HeaderGet(headers, name) ==
    IF name \in DOMAIN headers THEN headers[name] ELSE <<>>

parseRateLimitHeaders(headers) ==
    LET limit == HeaderGet(headers, "X-RateLimit-Limit")
        remaining == HeaderGet(headers, "X-RateLimit-Remaining")
        reset == HeaderGet(headers, "X-RateLimit-Reset")
    IN  [Limit |-> IF limit # <<>> THEN Atoi(limit).v ELSE IntZero,
         Remaining |-> IF remaining # <<>> THEN Atoi(remaining).v ELSE IntZero,
         Reset |-> IF reset # <<>> THEN ParseInt(reset, 64).v ELSE IntZero]

-----------------------------------------------------------------------------
(* encoding/json, as the pipeline uses it (client.go, email.go, types.go) *)

\* A JSON document, tagged by its type.
JNull == [t |-> "null"]
JBool(b) == [t |-> "bool", v |-> b]
JNum(n) == [t |-> "number", v |-> n]
JStr(str) == [t |-> "string", v |-> str]
JArr(seq) == [t |-> "array", v |-> seq]
JObj(fields) == [t |-> "object", v |-> fields]

\* A response body: unreadable (io.ReadAll fails), text that is no JSON
\* document, or the text of the JSON document doc.
BodyUnreadable == [readable |-> FALSE]
BodyText(raw) == [readable |-> TRUE, raw |-> raw, json |-> FALSE]
BodyJSON(raw, doc) == [readable |-> TRUE, raw |-> raw, json |-> TRUE, doc |-> doc]

\* Decoding a JSON value into a struct field of JSON type t: null leaves the
\* field as it is, another type is an UnmarshalTypeError.
HasField(obj, name) == name \in DOMAIN obj.v
FieldFits(obj, name, t) == HasField(obj, name) => obj.v[name].t \in {t, "null"}
Field(obj, name, t, zero) ==
    IF HasField(obj, name) /\ obj.v[name].t = t THEN obj.v[name].v ELSE zero

\* one element of ErrorResponse.Errors
FieldErrorFits(e) ==
    \/ e.t = "null"
    \/ e.t = "object" /\ FieldFits(e, "field", "string")
                      /\ FieldFits(e, "message", "string")

DecodeFieldError(e) ==
    IF e.t = "null" THEN [Field |-> "", Message |-> ""]
    ELSE [Field |-> Field(e, "field", "string", ""),
          Message |-> Field(e, "message", "string", "")]

ZeroErrorResponse == [Success |-> FALSE, Message |-> "", Errors |-> <<>>, RetryAfter |-> 0]

\* json.Unmarshal(body, &errResp): whether it succeeds, and errResp after it
UnmarshalErrorResponse(body) ==
    IF ~body.json THEN [ok |-> FALSE, v |-> ZeroErrorResponse]
    ELSE IF body.doc.t = "null" THEN [ok |-> TRUE, v |-> ZeroErrorResponse]
    ELSE IF body.doc.t # "object" THEN [ok |-> FALSE, v |-> ZeroErrorResponse]
    ELSE LET d == body.doc
             errs == Field(d, "errors", "array", <<>>)
         IN  [ok |-> /\ FieldFits(d, "success", "bool")
                     /\ FieldFits(d, "message", "string")
                     /\ FieldFits(d, "errors", "array")
                     /\ FieldFits(d, "retryAfter", "number")
                     /\ \A i \in 1..Len(errs) : FieldErrorFits(errs[i]),
              v |-> [Success |-> Field(d, "success", "bool", FALSE),
                     Message |-> Field(d, "message", "string", ""),
                     Errors |-> [i \in 1..Len(errs) |-> DecodeFieldError(errs[i])],
                     RetryAfter |-> Field(d, "retryAfter", "number", 0)]]

\* the zero time.Time, and the strings time.Time accepts (RFC 3339)
ZeroTime == "0001-01-01T00:00:00Z"
RFC3339Times == {ZeroTime, "2025-01-01T00:00:00Z"}

ZeroData == [EmailID |-> "", Status |-> "", QueuedAt |-> ZeroTime]
ZeroSendEmailResponse == [Success |-> FALSE, Message |-> "", Data |-> ZeroData]

DataFits(d) ==
    \/ d.t = "null"
    \/ /\ d.t = "object"
       /\ FieldFits(d, "emailId", "string")
       /\ FieldFits(d, "status", "string")
       /\ FieldFits(d, "queuedAt", "string")
       /\ Field(d, "queuedAt", "string", ZeroTime) \in RFC3339Times

DecodeData(d) ==
    IF d.t # "object" THEN ZeroData
    ELSE [EmailID |-> Field(d, "emailId", "string", ""),
          Status |-> Field(d, "status", "string", ""),
          QueuedAt |-> Field(d, "queuedAt", "string", ZeroTime)]

\* json.Unmarshal(body, &emailResp)
UnmarshalSendEmailResponse(body) ==
    IF ~body.json THEN [ok |-> FALSE, v |-> ZeroSendEmailResponse]
    ELSE IF body.doc.t = "null" THEN [ok |-> TRUE, v |-> ZeroSendEmailResponse]
    ELSE IF body.doc.t # "object" THEN [ok |-> FALSE, v |-> ZeroSendEmailResponse]
    ELSE LET d == body.doc
         IN  [ok |-> /\ FieldFits(d, "success", "bool")
                     /\ FieldFits(d, "message", "string")
                     /\ HasField(d, "data") => DataFits(d.v["data"]),
              v |-> [Success |-> Field(d, "success", "bool", FALSE),
                     Message |-> Field(d, "message", "string", ""),
                     Data |-> IF HasField(d, "data") THEN DecodeData(d.v["data"])
                              ELSE ZeroData]]

-----------------------------------------------------------------------------
(* The error classifier (client.go) *)

APIError(statusCode, message, errors, retryAfter, rateLimitInfo) ==
    [kind |-> "APIError", StatusCode |-> statusCode, Message |-> message,
     Errors |-> errors, RetryAfter |-> retryAfter, RateLimitInfo |-> rateLimitInfo]

\* a classifier that falls back to an APIError with the raw body as message
handleErrorResponseFallback(resp) ==
    IF ~resp.Body.readable
    THEN Errorf("failed to read error response: %w", <<"read error">>)
    ELSE LET errResp == UnmarshalErrorResponse(resp.Body)
         IN  IF ~errResp.ok
             THEN APIError(resp.StatusCode, resp.Body.raw, <<>>, 0,
                           parseRateLimitHeaders(resp.Header))
             ELSE APIError(resp.StatusCode, errResp.v.Message, errResp.v.Errors,
                           errResp.v.RetryAfter, parseRateLimitHeaders(resp.Header))

\* a classifier that parses the rate-limit headers of a 429 only
handleErrorResponseOnly429(resp) ==
    IF ~resp.Body.readable
    THEN Errorf("failed to read error response: %w", <<"read error">>)
    ELSE LET errResp == UnmarshalErrorResponse(resp.Body)
         IN  IF ~errResp.ok
             THEN Errorf("API error (status %d): %s", <<resp.StatusCode, resp.Body.raw>>)
             ELSE APIError(resp.StatusCode, errResp.v.Message, errResp.v.Errors,
                           errResp.v.RetryAfter,
                           IF resp.StatusCode = 429
                           THEN parseRateLimitHeaders(resp.Header)
                           ELSE parseRateLimitHeaders(<<>>))

\* handleErrorResponse(resp): the error it returns.  Its deferred
\* resp.Body.Close() runs on each of its three returns.
handleErrorResponse(resp) ==
    IF ~resp.Body.readable
    THEN Errorf("failed to read error response: %w", <<"read error">>)
    ELSE LET errResp == UnmarshalErrorResponse(resp.Body)
         IN  IF ~errResp.ok
             THEN Errorf("API error (status %d): %s", <<resp.StatusCode, resp.Body.raw>>)
             ELSE APIError(resp.StatusCode, errResp.v.Message, errResp.v.Errors,
                           errResp.v.RetryAfter, parseRateLimitHeaders(resp.Header))

-----------------------------------------------------------------------------
(* The request pipeline (client.go, email.go) *)

\* json.Marshal(req): the fields tagged omitempty are left out when empty
OmitEmpty(name, str) == IF str = "" THEN <<>> ELSE (name :> JStr(str))

Marshal(req) ==
    JObj(("to" :> JObj("email" :> JStr(req.To.Email))) @@
         ("from" :> JObj("email" :> JStr(req.From.Email))) @@
         OmitEmpty("subject", req.Subject) @@ OmitEmpty("html", req.HTML) @@
         OmitEmpty("text", req.Text) @@ OmitEmpty("templateId", req.TemplateID))

NilResponse == [nil |-> TRUE]
NoResponse == [received |-> FALSE]

\* the base URLs with which http.NewRequestWithContext fails to parse the URL
MalformedURLs == {"http://bad host"}

NoRequest == [dispatched |-> FALSE]

\* doRequest that sets the Idempotency-Key header whatever the key is
doRequestAlwaysKey(c, method, path, body, idempotencyKey) ==
    IF ~body.encodable
    THEN [err |-> Errorf("failed to marshal request body: %w", <<"json: unsupported type">>),
          request |-> NoRequest]
    ELSE IF clients[c].baseURL \in MalformedURLs
    THEN [err |-> Errorf("failed to create request: %w", <<"parse error">>),
          request |-> NoRequest]
    ELSE [err |-> NoError,
          request |->
            [dispatched |-> TRUE, Method |-> method,
             URL |-> clients[c].baseURL \o path,
             Header |-> ("Authorization" :> ("Bearer " \o clients[c].apiKey)) @@
                        ("Content-Type" :> "application/json") @@
                        ("User-Agent" :> "autosend-go/1.0.0") @@
                        ("Idempotency-Key" :> idempotencyKey),
             Body |-> Marshal(body),
             httpClient |-> clients[c].httpClient,
             Timeout |-> httpClients[clients[c].httpClient].Timeout]]

\* doRequest up to c.httpClient.Do(req): either the error it returns without
\* reaching the transport, or the request it hands to the transport.
doRequest(c, method, path, body, idempotencyKey) ==
    IF ~body.encodable
    THEN [err |-> Errorf("failed to marshal request body: %w", <<"json: unsupported type">>),
          request |-> NoRequest]
    ELSE IF clients[c].baseURL \in MalformedURLs
    THEN [err |-> Errorf("failed to create request: %w", <<"parse error">>),
          request |-> NoRequest]
    ELSE [err |-> NoError,
          request |->
            [dispatched |-> TRUE, Method |-> method,
             URL |-> clients[c].baseURL \o path,
             Header |-> ("Authorization" :> ("Bearer " \o clients[c].apiKey)) @@
                        ("Content-Type" :> "application/json") @@
                        ("User-Agent" :> "autosend-go/1.0.0") @@
                        (IF idempotencyKey # ""
                         THEN ("Idempotency-Key" :> idempotencyKey) ELSE <<>>),
             Body |-> Marshal(body),
             httpClient |-> clients[c].httpClient,
             Timeout |-> httpClients[clients[c].httpClient].Timeout]]

\* a call of op returns (resp, err) to its caller.  request is what it handed
\* to the transport, doCalls how often it called httpClient.Do, response what
\* the transport delivered, closes how often it closed the response body.
Returns(op, c, req, key, resp, err, request, doCalls, response, closes) ==
    ret' = [op |-> op, client |-> c, req |-> req, key |-> key, resp |-> resp,
            err |-> err, request |-> request, doCalls |-> doCalls,
            response |-> response, closes |-> closes]

\* SendEmailWithIdempotency up to the point where it waits for the transport
Send(op, c, req, idempotencyKey) ==
    /\ c \in 1..Len(clients)
    /\ BagCardinality(calls) < MaxCallers
    /\ UNCHANGED <<httpClients, clients>>
    /\ LET invalid == validateSendEmailRequest(req)
       IN  IF invalid # NoError
           THEN /\ Returns(op, c, req, idempotencyKey, NilResponse, invalid,
                           NoRequest, 0, NoResponse, 0)
                /\ UNCHANGED calls
           ELSE LET r == doRequest(c, "POST", "/mails/send", req, idempotencyKey)
                IN  IF r.err # NoError
                    THEN /\ Returns(op, c, req, idempotencyKey, NilResponse, r.err,
                                    NoRequest, 0, NoResponse, 0)
                         /\ UNCHANGED calls
                    ELSE /\ calls' = calls (+) SetToBag({
                                [op |-> op, client |-> c, req |-> req,
                                 key |-> idempotencyKey, request |-> r.request,
                                 doCalls |-> 1]})
                         /\ UNCHANGED ret

SendEmailWithIdempotency(c, req, idempotencyKey) ==
    Send("SendEmailWithIdempotency", c, req, idempotencyKey)

SendEmail(c, req) == Send("SendEmail", c, req, "")

\* a pipeline that answers a transport failure by calling httpClient.Do again
TransportErrorRetry(call) ==
    /\ BagIn(call, calls)
    /\ call.doCalls < 2
    /\ calls' = (calls (-) SetToBag({call})) (+)
                SetToBag({[call EXCEPT !.doCalls = call.doCalls + 1]})
    /\ UNCHANGED <<httpClients, clients, ret>>

\* c.httpClient.Do(req) returns an error: doRequest wraps it and the call
\* returns it
TransportError(call) ==
    /\ BagIn(call, calls)
    /\ calls' = calls (-) SetToBag({call})
    /\ Returns(call.op, call.client, call.req, call.key, NilResponse,
               Errorf("request failed: %w", <<"transport error">>),
               call.request, call.doCalls, NoResponse, 0)
    /\ UNCHANGED <<httpClients, clients>>

\* a response, as the transport delivers it
Response(statusCode, header, body) ==
    [received |-> TRUE, StatusCode |-> statusCode, Header |-> header, Body |-> body]

\* a pipeline that closes the body after reading it instead of deferring the
\* close, so that a failed read returns with the body still open
InterpretCloseAfterRead(resp) ==
    IF resp.StatusCode # 200
    THEN [resp |-> NilResponse, err |-> handleErrorResponse(resp), closes |-> 1]
    ELSE IF ~resp.Body.readable
    THEN [resp |-> NilResponse,
          err |-> Errorf("failed to read response body: %w", <<"read error">>),
          closes |-> 0]
    ELSE LET emailResp == UnmarshalSendEmailResponse(resp.Body)
         IN  IF ~emailResp.ok
             THEN [resp |-> NilResponse,
                   err |-> Errorf("failed to parse response: %w", <<"json error">>),
                   closes |-> 1]
             ELSE [resp |-> [nil |-> FALSE, v |-> emailResp.v],
                   err |-> NoError, closes |-> 1]

\* a pipeline that takes every status below 300 for a success
InterpretAny2xx(resp) ==
    IF resp.StatusCode >= 300
    THEN [resp |-> NilResponse, err |-> handleErrorResponse(resp), closes |-> 2]
    ELSE IF ~resp.Body.readable
    THEN [resp |-> NilResponse,
          err |-> Errorf("failed to read response body: %w", <<"read error">>),
          closes |-> 1]
    ELSE LET emailResp == UnmarshalSendEmailResponse(resp.Body)
         IN  IF ~emailResp.ok
             THEN [resp |-> NilResponse,
                   err |-> Errorf("failed to parse response: %w", <<"json error">>),
                   closes |-> 1]
             ELSE [resp |-> [nil |-> FALSE, v |-> emailResp.v],
                   err |-> NoError, closes |-> 1]

\* SendEmailWithIdempotency from the response on: what it returns and how
\* often resp.Body.Close() has run when it returns (its own deferred call,
\* and the one handleErrorResponse defers).
Interpret(resp) ==
    IF resp.StatusCode # 200
    THEN [resp |-> NilResponse, err |-> handleErrorResponse(resp), closes |-> 2]
    ELSE IF ~resp.Body.readable
    THEN [resp |-> NilResponse,
          err |-> Errorf("failed to read response body: %w", <<"read error">>),
          closes |-> 1]
    ELSE LET emailResp == UnmarshalSendEmailResponse(resp.Body)
         IN  IF ~emailResp.ok
             THEN [resp |-> NilResponse,
                   err |-> Errorf("failed to parse response: %w", <<"json error">>),
                   closes |-> 1]
             ELSE [resp |-> [nil |-> FALSE, v |-> emailResp.v],
                   err |-> NoError, closes |-> 1]

\* c.httpClient.Do(req) returns resp: the call interprets it and returns
TransportResponse(call, resp) ==
    /\ BagIn(call, calls)
    /\ calls' = calls (-) SetToBag({call})
    /\ LET out == Interpret(resp)
       IN  Returns(call.op, call.client, call.req, call.key, out.resp, out.err,
                   call.request, call.doCalls, resp, out.closes)
    /\ UNCHANGED <<httpClients, clients>>

-----------------------------------------------------------------------------
(* The inputs the specifications draw from *)

CustomBaseURL == "https://eu.autosend.test/v1"

\* the requests sent through the pipeline: a valid one, one per way of
\* failing validation, and one the encoder rejects
HTMLRequest ==
    SendEmailRequest("customer@example.com", "hello@mail.yourdomain.com",
                     "Welcome!", "<p>hi</p>", "", "", TRUE)
TemplateRequest ==
    SendEmailRequest("customer@example.com", "hello@mail.yourdomain.com",
                     "", "", "", "tmpl_abc123", TRUE)
SendRequests ==
    { NilRequest, HTMLRequest,
      [HTMLRequest EXCEPT !.To.Email = ""],
      [HTMLRequest EXCEPT !.From.Email = ""],
      [HTMLRequest EXCEPT !.HTML = ""],
      [HTMLRequest EXCEPT !.Subject = ""],
      [HTMLRequest EXCEPT !.encodable = FALSE] }

IdempotencyKeys == {"", "order-42"}

StatusCodes == {200, 201, 429, 500}

RateLimitHeaders ==
    ("X-RateLimit-Limit" :> <<"5", "0">>) @@
    ("X-RateLimit-Remaining" :> <<"0">>) @@
    ("X-RateLimit-Reset" :> <<"1", "7", "0", "0", "0", "0", "0", "0", "0", "0">>)

ResponseHeaders == {<<>>, RateLimitHeaders}

RateLimitedBody ==
    BodyJSON("{\"success\":false,\"message\":\"rate limited\",\"retryAfter\":5}",
             JObj(("success" :> JBool(FALSE)) @@ ("message" :> JStr("rate limited")) @@
                  ("retryAfter" :> JNum(5))))
InvalidBody ==
    BodyJSON("{\"success\":false,\"message\":\"invalid\",\"errors\":[{\"field\":\"to.email\",\"message\":\"invalid format\"}]}",
             JObj(("success" :> JBool(FALSE)) @@ ("message" :> JStr("invalid")) @@
                  ("errors" :> JArr(<<JObj(("field" :> JStr("to.email")) @@
                                          ("message" :> JStr("invalid format")))>>))))
QueuedBody ==
    BodyJSON("{\"success\":true,\"message\":\"ok\",\"data\":{\"emailId\":\"em_1\",\"status\":\"queued\",\"queuedAt\":\"2025-01-01T00:00:00Z\"}}",
             JObj(("success" :> JBool(TRUE)) @@ ("message" :> JStr("ok")) @@
                  ("data" :> JObj(("emailId" :> JStr("em_1")) @@
                                  ("status" :> JStr("queued")) @@
                                  ("queuedAt" :> JStr("2025-01-01T00:00:00Z"))))))
HTMLBody == BodyText("<html>502 Bad Gateway</html>")
StringBody == BodyJSON("\"oops\"", JStr("oops"))
NullBody == BodyJSON("null", JNull)
IllTypedBody ==
    BodyJSON("{\"success\":false,\"message\":404}",
             JObj(("success" :> JBool(FALSE)) @@ ("message" :> JNum(404))))

Bodies ==
    { BodyUnreadable, HTMLBody, StringBody, NullBody, IllTypedBody,
      RateLimitedBody, InvalidBody, QueuedBody }

Responses ==
    { Response(statusCode, header, body) :
        statusCode \in StatusCodes, header \in ResponseHeaders, body \in Bodies }

\* the http.Client the callers made themselves before using the library
CallerHTTPClients == <<[Timeout |-> 5]>>

-----------------------------------------------------------------------------
(* Spec: the send pipeline, on two clients constructed beforehand: one with *)
(* the defaults, one whose base URL does not parse                         *)

Init ==
    LET w0 == [h |-> <<>>, c |-> <<>>]
        w1 == NewClientIn(w0, "key-1")
        w2 == NewClientWithOptionsIn(w1, "key-2", <<WithBaseURL("http://bad host")>>)
    IN  /\ httpClients = w2.h
        /\ clients = w2.c
        /\ calls = EmptyBag
        /\ ret = [op |-> "none"]

Next ==
    \/ \E c \in 1..Len(clients), req \in SendRequests : SendEmail(c, req)
    \/ \E c \in 1..Len(clients), req \in SendRequests, key \in IdempotencyKeys :
         SendEmailWithIdempotency(c, req, key)
    \/ \E call \in BagToSet(calls) : TransportError(call)
    \/ \E call \in BagToSet(calls), resp \in Responses : TransportResponse(call, resp)

Spec == Init /\ [][Next]_vars

-----------------------------------------------------------------------------
(* SpecValidate: validation alone, on every request *)

Validate ==
    /\ ret.op = "input"
    /\ ret' = [op |-> "validateSendEmailRequest", req |-> ret.req,
               err |-> validateSendEmailRequest(ret.req)]
    /\ UNCHANGED <<httpClients, clients, calls>>

InitValidate ==
    /\ httpClients = <<>>
    /\ clients = <<>>
    /\ calls = EmptyBag
    /\ \E req \in Requests : ret = [op |-> "input", req |-> req]

NextValidate == Validate

SpecValidate == InitValidate /\ [][NextValidate]_vars

-----------------------------------------------------------------------------
(* SpecAPIError: the accessors of APIError (errors.go), on every APIError *)

\* e.IsRateLimitError()
IsRateLimitError(e) == e.StatusCode = 429

\* an accessor that returns the RetryAfter field of any error
GetRetryAfterAnyStatus(e) == e.RetryAfter

\* e.GetRetryAfter()
GetRetryAfter(e) == IF IsRateLimitError(e) THEN e.RetryAfter ELSE 0

\* the status codes, messages and retryAfter values the errors are built from
ErrorStatusCodes == {201, 400, 401, 403, 429, 500, 503}
ErrorMessages == {"", "Rate limit exceeded"}
RetryAfters == {-1, 0, 5, 60}

\* the APIError values a caller can hold: the classifier's, and any other,
\* since the type and its fields are exported
APIErrors ==
    {APIError(statusCode, message, <<>>, retryAfter, parseRateLimitHeaders(headers)) :
        statusCode \in ErrorStatusCodes, message \in ErrorMessages,
        retryAfter \in RetryAfters, headers \in ResponseHeaders}

\* a caller asks an APIError how long to wait
CallGetRetryAfter ==
    /\ ret.op = "input"
    /\ ret' = [op |-> "GetRetryAfter", e |-> ret.e, result |-> GetRetryAfter(ret.e)]
    /\ UNCHANGED <<httpClients, clients, calls>>

InitAPIError ==
    /\ httpClients = <<>>
    /\ clients = <<>>
    /\ calls = EmptyBag
    /\ \E e \in APIErrors : ret = [op |-> "input", e |-> e]

NextAPIError == CallGetRetryAfter

SpecAPIError == InitAPIError /\ [][NextAPIError]_vars

-----------------------------------------------------------------------------
(* SpecHeaders: parseRateLimitHeaders (client.go), on every set of headers *)

RateLimitHeaderNames == {"X-RateLimit-Limit", "X-RateLimit-Remaining", "X-RateLimit-Reset"}

\* the values a server can send in one of the headers
HeaderValues == {
    <<>>,  \* the header is sent with an empty value
    <<"5", "0">>,  \* a number
    <<"a", "b", "c">>,  \* no number
    <<"1", "2", "x">>,  \* digits followed by a letter
    <<"-", "1">>,  \* a negative number
    <<"+", "7">>,  \* a number with a plus sign
    <<"0", "0", "7">>,  \* leading zeros
    <<"2", "1", "4", "7", "4", "8", "3", "6", "4", "8">>,  \* 2^31: beyond a 32-bit int, within a 64-bit one
    <<"9", "2", "2", "3", "3", "7", "2", "0", "3", "6", "8", "5", "4", "7", "7", "5", "8", "0", "7">>,  \* 2^63 - 1, the largest int64
    <<"9", "2", "2", "3", "3", "7", "2", "0", "3", "6", "8", "5", "4", "7", "7", "5", "8", "0", "8">>,  \* 2^63, one beyond the largest int64
    <<"-", "9", "2", "2", "3", "3", "7", "2", "0", "3", "6", "8", "5", "4", "7", "7", "5", "8", "0", "8">>,  \* -2^63, the smallest int64
    <<"-", "9", "2", "2", "3", "3", "7", "2", "0", "3", "6", "8", "5", "4", "7", "7", "5", "8", "0", "9">>,  \* one below the smallest int64
    <<"9", "9", "9", "9", "9", "9", "9", "9", "9", "9", "9", "9", "9", "9", "9", "9", "9", "9", "9", "9">>   \* twenty digits
    }

\* the headers of a response: each of the three is absent or has a value
HeaderMaps ==
    UNION {[names -> HeaderValues] : names \in SUBSET RateLimitHeaderNames}

\* the classifier reads the rate-limit headers of a response
ParseHeaders ==
    /\ ret.op = "input"
    /\ ret' = [op |-> "parseRateLimitHeaders", headers |-> ret.headers,
               info |-> parseRateLimitHeaders(ret.headers)]
    /\ UNCHANGED <<httpClients, clients, calls>>

InitHeaders ==
    /\ httpClients = <<>>
    /\ clients = <<>>
    /\ calls = EmptyBag
    /\ \E headers \in HeaderMaps : ret = [op |-> "input", headers |-> headers]

NextHeaders == ParseHeaders

SpecHeaders == InitHeaders /\ [][NextHeaders]_vars

-----------------------------------------------------------------------------
(* SpecCfg: the three constructors, and calls on the clients they make *)

\* the http.Client objects a caller can pass: the ones the callers made
CallerHandles == 1..Len(CallerHTTPClients)

\* each constructor is given an API key of its own
Configs ==
    { Config("key-2", baseURL, httpClient, timeout) :
        baseURL \in {"", CustomBaseURL},
        httpClient \in {Nil} \cup CallerHandles, timeout \in {0, 60} }

Options ==
    {WithBaseURL(u) : u \in {CustomBaseURL}} \cup
    {WithHTTPClient(h) : h \in CallerHandles} \cup
    {WithTimeout(t) : t \in {10, 60}}

OptionSeqs == UNION { [1..n -> Options] : n \in 0..MaxOpts }

CfgRequests == {NilRequest, HTMLRequest}

CfgResponses ==
    { Response(200, <<>>, QueuedBody), Response(429, RateLimitHeaders, RateLimitedBody) }

InitCfg ==
    /\ httpClients = CallerHTTPClients
    /\ clients = <<>>
    /\ calls = EmptyBag
    /\ ret = [op |-> "none"]

NextCfg ==
    \/ NewClient("key-1")
    \/ \E config \in Configs : NewClientWithConfig(config)
    \/ \E opts \in OptionSeqs : NewClientWithOptions("key-3", opts)
    \/ \E c \in 1..Len(clients), req \in CfgRequests : SendEmail(c, req)
    \/ \E c \in 1..Len(clients), req \in CfgRequests :
         SendEmailWithIdempotency(c, req, "order-42")
    \/ \E call \in BagToSet(calls) : TransportError(call)
    \/ \E call \in BagToSet(calls), resp \in CfgResponses : TransportResponse(call, resp)

SpecCfg == InitCfg /\ [][NextCfg]_vars

-----------------------------------------------------------------------------
(* Properties of the send pipeline, checked under Spec *)

\* ret is the return of a SendEmail / SendEmailWithIdempotency call
IsSend == ret.op \in {"SendEmail", "SendEmailWithIdempotency"}

\* ret is the return of a call to which the transport delivered a response
GotResponse == IsSend /\ ret.response.received

\* the request fails validation, as the specification lists the failures
FailsValidation(req) ==
    \/ req.nil
    \/ req.To.Email = ""
    \/ req.From.Email = ""
    \/ req.TemplateID = "" /\ req.HTML = "" /\ req.Text = ""
    \/ req.TemplateID = "" /\ req.Subject = ""

\* C1: a call whose request fails validation returns an error and no
\* response, and has not invoked the transport: it handed it no request, and
\* no call waiting on the transport carries such a request.
C1_InvalidNeverReachesTransport ==
    /\ IsSend /\ FailsValidation(ret.req) =>
         /\ ret.err # NoError
         /\ ret.resp = NilResponse
         /\ ret.doCalls = 0
         /\ ret.request = NoRequest
    /\ \A call \in BagToSet(calls) : ~FailsValidation(call.req)

\* a call with subject and template both empty has returned, while another
\* call is waiting on the transport
C1_Witness ==
    /\ IsSend /\ ~ret.req.nil
    /\ ret.req.Subject = "" /\ ret.req.TemplateID = "" /\ ret.req.HTML # ""
    /\ ret.err # NoError
    /\ calls # EmptyBag

\* the body is JSON null, or a JSON object whose ErrorResponse fields have
\* their types
WellTypedErrorDocument(body) ==
    /\ body.readable /\ body.json
    /\ \/ body.doc.t = "null"
       \/ /\ body.doc.t = "object"
          /\ FieldFits(body.doc, "success", "bool")
          /\ FieldFits(body.doc, "message", "string")
          /\ FieldFits(body.doc, "errors", "array")
          /\ FieldFits(body.doc, "retryAfter", "number")

\* C2 as stated: every non-200 response yields an APIError carrying the
\* status code; when the body is no valid JSON its message is the raw body
\* text and its field-error list is empty.
C2_AlwaysAPIError ==
    GotResponse /\ ret.response.StatusCode # 200 =>
        /\ ret.err.kind = "APIError"
        /\ ret.err.StatusCode = ret.response.StatusCode
        /\ (ret.response.Body.readable /\ ~ret.response.Body.json) =>
              /\ ret.err.Message = ret.response.Body.raw
              /\ ret.err.Errors = <<>>

\* C2 as amended: a non-200 response whose body is read and decodes as an
\* ErrorResponse yields an APIError carrying the status code and the body's
\* message; a body that cannot be read yields a plain read error, and a body
\* that does not decode (no valid JSON, no JSON object, a field of another
\* type) yields a plain error, no APIError, whose text carries the status
\* code and the raw body verbatim.
C2_APIErrorWhenDecodable ==
    GotResponse /\ ret.response.StatusCode # 200 =>
        LET body == ret.response.Body
        IN  /\ ~body.readable =>
                 /\ ret.err.kind = "error"
                 /\ ret.err.format = "failed to read error response: %w"
            /\ (body.readable /\ ~WellTypedErrorDocument(body)) =>
                 /\ ret.err.kind = "error"
                 /\ ret.err.format = "API error (status %d): %s"
                 /\ ret.err.args = <<ret.response.StatusCode, body.raw>>
            /\ WellTypedErrorDocument(body) =>
                 /\ ret.err.kind = "APIError"
                 /\ ret.err.StatusCode = ret.response.StatusCode
                 /\ ret.err.Message =
                      IF body.doc.t = "object" /\ HasField(body.doc, "message")
                      THEN body.doc.v["message"].v ELSE ""

\* a 500 with an HTML page as body has been classified as a plain error
C2_Witness ==
    /\ GotResponse /\ ret.response.StatusCode = 500
    /\ ret.response.Body = HTMLBody
    /\ ret.err.kind = "error"

\* what the three rate-limit headers of the model's responses say
ExpectedRateLimitInfo(header) ==
    IF header = RateLimitHeaders
    THEN [Limit |-> [neg |-> FALSE, digits |-> <<"5", "0">>],
          Remaining |-> [neg |-> FALSE, digits |-> <<"0">>],
          Reset |-> [neg |-> FALSE,
                     digits |-> <<"1", "7", "0", "0", "0", "0", "0", "0", "0", "0">>]]
    ELSE [Limit |-> IntZero, Remaining |-> IntZero, Reset |-> IntZero]

\* C3 as stated: every error for a non-200 response has the RateLimitInfo
\* parsed from the response's headers attached, whatever the status and body.
C3_AlwaysRateLimitInfo ==
    GotResponse /\ ret.response.StatusCode # 200 =>
        /\ "RateLimitInfo" \in DOMAIN ret.err
        /\ ret.err.RateLimitInfo = ExpectedRateLimitInfo(ret.response.Header)

\* C3 as amended: every APIError for a non-200 response has the RateLimitInfo
\* parsed from the response's headers attached, for every status code; the
\* error is an APIError exactly when the body was read and decoded, and the
\* plain errors returned otherwise carry no RateLimitInfo.
C3_RateLimitInfoOnAPIError ==
    GotResponse /\ ret.response.StatusCode # 200 =>
        /\ ret.err.kind = "APIError" =>
              ret.err.RateLimitInfo = ExpectedRateLimitInfo(ret.response.Header)
        /\ ret.err.kind = "APIError" <=> WellTypedErrorDocument(ret.response.Body)
        /\ ret.err.kind # "APIError" => "RateLimitInfo" \notin DOMAIN ret.err

\* a 500 (no 429) with rate-limit headers has become an APIError with them
C3_Witness ==
    /\ GotResponse /\ ret.response.StatusCode = 500
    /\ ret.response.Header = RateLimitHeaders
    /\ ret.err.kind = "APIError"
    /\ ret.err.RateLimitInfo.Limit.digits = <<"5", "0">>

\* the body is JSON null, or a JSON object whose SendEmailResponse fields
\* have their types
WellTypedSendDocument(body) ==
    /\ body.readable /\ body.json
    /\ \/ body.doc.t = "null"
       \/ /\ body.doc.t = "object"
          /\ FieldFits(body.doc, "success", "bool")
          /\ FieldFits(body.doc, "message", "string")
          /\ FieldFits(body.doc, "data", "object")

IdempotencyHeaderMatches(op, key, request) ==
    /\ ("Idempotency-Key" \in DOMAIN request.Header) <=> (key # "")
    /\ key # "" => request.Header["Idempotency-Key"] = key
    /\ op = "SendEmail" => "Idempotency-Key" \notin DOMAIN request.Header

\* C5: a request handed to the transport carries the Idempotency-Key header
\* exactly when the call was given a non-empty key, and then with that key
\* as value; SendEmail never sends it.
C5_IdempotencyHeader ==
    /\ \A call \in BagToSet(calls) :
         IdempotencyHeaderMatches(call.op, call.key, call.request)
    /\ (IsSend /\ ret.request.dispatched) =>
         IdempotencyHeaderMatches(ret.op, ret.key, ret.request)

\* a call with the empty key and a call with a key wait on the transport
C5_Witness ==
    /\ \E call \in BagToSet(calls) :
         call.op = "SendEmailWithIdempotency" /\ call.key = ""
    /\ \E call \in BagToSet(calls) :
         call.key = "order-42" /\ call.request.Header["Idempotency-Key"] = "order-42"

-----------------------------------------------------------------------------
(* Properties of validation, checked under SpecValidate *)

Validated == ret.op = "validateSendEmailRequest"

\* C6: a non-nil request is accepted exactly when to.email and from.email are
\* non-empty and either templateId is non-empty, or html or text is non-empty
\* and subject is non-empty.
C6_AcceptedExactlyWhen ==
    Validated /\ ~ret.req.nil =>
        ((ret.err = NoError) <=>
            /\ ret.req.To.Email # ""
            /\ ret.req.From.Email # ""
            /\ \/ ret.req.TemplateID # ""
               \/ /\ ret.req.HTML # "" \/ ret.req.Text # ""
                  /\ ret.req.Subject # "")

\* a request with a template and neither html, text nor subject was accepted
C6_Witness ==
    /\ Validated /\ ~ret.req.nil
    /\ ret.req.TemplateID # ""
    /\ ret.req.HTML = "" /\ ret.req.Text = "" /\ ret.req.Subject = ""
    /\ ret.err = NoError

\* the five checks in the order of the specification, and their messages
ViolatesCheck(req, i) ==
    CASE i = 1 -> req.nil
      [] i = 2 -> ~req.nil /\ req.To.Email = ""
      [] i = 3 -> ~req.nil /\ req.From.Email = ""
      [] i = 4 -> ~req.nil /\ req.TemplateID = "" /\ req.HTML = "" /\ req.Text = ""
      [] i = 5 -> ~req.nil /\ req.TemplateID = "" /\ req.Subject = ""

CheckMessages ==
    << "request cannot be nil",
       "to.email is required",
       "from.email is required",
       "either templateId or html/text content must be provided",
       "subject is required when not using a template" >>

\* C7: validation reports the failure of the earliest violated check of the
\* five, in the order nil, to.email, from.email, content, subject, and the
\* five messages differ from one another.
C7_FirstViolatedCheckReported ==
    /\ \A i, j \in 1..5 : i # j => CheckMessages[i] # CheckMessages[j]
    /\ Validated =>
         LET violated == { i \in 1..5 : ViolatesCheck(ret.req, i) }
         IN  IF violated = {} THEN ret.err = NoError
             ELSE LET first == CHOOSE i \in violated : \A j \in violated : i <= j
                  IN  /\ ret.err.kind = "error"
                      /\ ret.err.format = CheckMessages[first]

\* a request violating the from.email, content and subject checks at once was
\* refused for its from.email
C7_Witness ==
    /\ Validated /\ ~ret.req.nil
    /\ ret.req.To.Email # "" /\ ret.req.From.Email = ""
    /\ ret.req.TemplateID = "" /\ ret.req.HTML = "" /\ ret.req.Text = ""
    /\ ret.req.Subject = ""
    /\ ret.err.format = "from.email is required"

-----------------------------------------------------------------------------
(* Properties of construction, checked under SpecCfg *)

\* the timeout under which the requests of client c are sent
TimeoutOf(c) == httpClients[clients[c].httpClient].Timeout

\* C8: the client NewClientWithConfig returns has the given BaseURL,
\* HTTPClient and Timeout wherever they are non-zero, and the defaults
\* elsewhere, for every combination of set and unset fields.
C8_ConfigFieldsTakeEffect ==
    ret.op = "NewClientWithConfig" =>
        LET config == ret.args
            c == ret.client
        IN  /\ clients[c].apiKey = config.APIKey
            /\ clients[c].baseURL =
                  IF config.BaseURL = "" THEN DefaultBaseURL ELSE config.BaseURL
            /\ config.HTTPClient # Nil => clients[c].httpClient = config.HTTPClient
            /\ config.Timeout # 0 => TimeoutOf(c) = config.Timeout
            /\ (config.Timeout = 0 /\ config.HTTPClient = Nil) =>
                  TimeoutOf(c) = DefaultTimeout

\* the argument of the last option of that kind in opts, or default
RECURSIVE LastSet(_, _, _)
LastSet(opts, kind, default) ==
    IF opts = <<>> THEN default
    ELSE IF opts[Len(opts)].opt = kind THEN opts[Len(opts)].arg
    ELSE LastSet(SubSeq(opts, 1, Len(opts) - 1), kind, default)

\* C9: the client NewClientWithOptions returns has, for base URL, transport
\* and timeout, the value of the last option that sets it: the base URL of
\* the last WithBaseURL or the default, the transport of the last
\* WithHTTPClient or a new standard one, the timeout of the last WithTimeout,
\* or the default when neither WithTimeout nor WithHTTPClient is given.
C9_LastOptionWins ==
    ret.op = "NewClientWithOptions" =>
        LET opts == ret.args.opts
            c == ret.client
            has(kind) == \E i \in 1..Len(opts) : opts[i].opt = kind
        IN  /\ clients[c].apiKey = ret.args.apiKey
            /\ clients[c].baseURL = LastSet(opts, "WithBaseURL", DefaultBaseURL)
            /\ has("WithHTTPClient") =>
                  clients[c].httpClient = LastSet(opts, "WithHTTPClient", Nil)
            /\ ~has("WithHTTPClient") => clients[c].httpClient \notin CallerHandles
            /\ has("WithTimeout") =>
                  TimeoutOf(c) = LastSet(opts, "WithTimeout", DefaultTimeout)
            /\ (~has("WithTimeout") /\ ~has("WithHTTPClient")) =>
                  TimeoutOf(c) = DefaultTimeout

\* C10: no step of the library changes a constructed client: its API key,
\* its endpoint, its transport, and the timeout of its transport stay.
C10_ClientsNeverChange ==
    [][\A c \in 1..Len(clients) :
          /\ clients'[c] = clients[c]
          /\ httpClients'[clients[c].httpClient] = httpClients[clients[c].httpClient]
      ]_vars

-----------------------------------------------------------------------------
(* Further properties of the send pipeline, checked under Spec *)

\* C11: a call hands at most one request to the transport: a call waiting on
\* the transport has called httpClient.Do once, and a call that has returned
\* has called it once if it got as far as the transport and never otherwise,
\* whether it returns a transport failure, a 429, a 5xx or any other result.
C11_AtMostOneRequest ==
    /\ \A call \in BagToSet(calls) : call.doCalls = 1
    /\ IsSend =>
         /\ ret.doCalls <= 1
         /\ (ret.doCalls = 1) <=> ret.request.dispatched
         /\ ret.response.received => ret.doCalls = 1
         /\ ret.err = Errorf("request failed: %w", <<"transport error">>) =>
               ret.doCalls = 1

\* a call has returned a transport failure after one request, and no call is
\* left waiting on the transport
C11_Witness ==
    /\ IsSend
    /\ ret.err = Errorf("request failed: %w", <<"transport error">>)
    /\ ret.doCalls = 1
    /\ calls = EmptyBag

\* C13: whenever the transport delivered a response, its body has been closed
\* by the time the call returns, on each of the exit paths: success, a status
\* other than 200, a failed read of the body, a body that does not parse. A
\* call that got no response has no body to close.
C13_BodyClosedBeforeReturn ==
    IF GotResponse
    THEN /\ ret.closes >= 1
         /\ ret.err = NoError => ret.closes >= 1 /\ ret.response.StatusCode = 200
         /\ ret.response.StatusCode # 200 => ret.err # NoError /\ ret.closes >= 1
         /\ (ret.response.StatusCode = 200 /\ ~ret.response.Body.readable) =>
               /\ ret.err = Errorf("failed to read response body: %w", <<"read error">>)
               /\ ret.closes >= 1
    ELSE IsSend => ret.closes = 0

\* a call returns the failure to read the body of a 200 response, and the
\* body was closed
C13_Witness ==
    /\ GotResponse
    /\ ret.response.StatusCode = 200
    /\ ~ret.response.Body.readable
    /\ ret.err = Errorf("failed to read response body: %w", <<"read error">>)
    /\ ret.closes >= 1

-----------------------------------------------------------------------------
(* Properties of the APIError accessors, checked under SpecAPIError *)

\* C12: for every APIError, GetRetryAfter returns the RetryAfter field when
\* the status code is 429 and 0 for every other status code, also when the
\* RetryAfter field of such an error is not zero.
C12_RetryAfterOnlyOn429 ==
    ret.op = "GetRetryAfter" =>
        /\ ret.e.StatusCode = 429 => ret.result = ret.e.RetryAfter
        /\ ret.e.StatusCode # 429 => ret.result = 0

\* GetRetryAfter has answered 0 for a 500 error whose RetryAfter field is 5
C12_Witness ==
    /\ ret.op = "GetRetryAfter"
    /\ ret.e.StatusCode = 500
    /\ ret.e.RetryAfter = 5
    /\ ret.result = 0

-----------------------------------------------------------------------------
(* Properties of parseRateLimitHeaders, checked under SpecHeaders *)

\* the digits of a header value, without its sign
Unsigned(s) == IF s # <<>> /\ Head(s) \in {"+", "-"} THEN Tail(s) ELSE s

\* the value is a decimal integer: an optional sign and at least one digit
DecimalInteger(s) ==
    /\ Unsigned(s) # <<>>
    /\ \A i \in 1..Len(Unsigned(s)) : IsDigit(Unsigned(s)[i])

\* the decimal integer lies in -2^(bits-1) .. 2^(bits-1) - 1
FitsWidth(s, bits) ==
    LET magnitude == StripLeadingZeros(Unsigned(s))
    IN  IF Head(s) = "-"
        THEN ~MagnitudeLess(Cutoff(bits), magnitude)
        ELSE MagnitudeLess(magnitude, Cutoff(bits))

\* the integer a decimal integer denotes
IntegerValue(s) ==
    LET magnitude == StripLeadingZeros(Unsigned(s))
    IN  [neg |-> Head(s) = "-" /\ magnitude # <<"0">>, digits |-> magnitude]

\* the value of a field: zero when the header is absent, empty, no integer or
\* out of the field's range, and the header's integer otherwise
FieldOf(headers, name, bits) ==
    IF name \notin DOMAIN headers THEN IntZero
    ELSE IF ~DecimalInteger(headers[name]) THEN IntZero
    ELSE IF ~FitsWidth(headers[name], bits) THEN IntZero
    ELSE IntegerValue(headers[name])

\* C14: each field of the RateLimitInfo is zero when its header is absent or
\* its value is not an integer of the field's width (no number, empty, or out
\* of range), and is the header's integer value otherwise.
C14_ZeroUnlessParsable ==
    ret.op = "parseRateLimitHeaders" =>
        /\ ret.info.Limit = FieldOf(ret.headers, "X-RateLimit-Limit", IntSize)
        /\ ret.info.Remaining = FieldOf(ret.headers, "X-RateLimit-Remaining", IntSize)
        /\ ret.info.Reset = FieldOf(ret.headers, "X-RateLimit-Reset", 64)

=============================================================================
